---------------------------- MODULE Spec2Model ----------------------------
(***************************************************************************)
(* Query3 (sotamaze/query3): the query-string translator, the operator     *)
(* allow-list validator, the query facade over a Mongoose model and the    *)
(* field-omission helper.                                                  *)
(*                                                                         *)
(* src/src/query3/query3.ts holds the class twice: lines 1-166 decode the  *)
(* raw input with JSON.parse (the "json" strategy), lines 168-350 decode   *)
(* it with qs.parse (the "flat" strategy).  Both are modelled; the         *)
(* variable strategy says which one a run executes.                        *)
(*                                                                         *)
(* JavaScript values are tagged records:                                   *)
(*   undefined  [t |-> "undef"]              null   [t |-> "null"]          *)
(*   boolean    [t |-> "bool", b |-> b]      string [t |-> "str", s |-> s]  *)
(*   number     [t |-> "num", n |-> [k, n, d]]   (k: "fin" n/d, "nan",      *)
(*                                                "inf", "-inf")           *)
(*   array      [t |-> "arr", a |-> <<values>>]                            *)
(*   object     [t |-> "obj", es |-> <<[k |-> key, v |-> value], ...>>]     *)
(* An object's entries are kept in JavaScript's own-property order.        *)
(***************************************************************************)
EXTENDS Integers, Sequences, FiniteSets, TLC

(***************************************************************************)
(* Characters and strings                                                  *)
(***************************************************************************)
Ch(s, i) == SubSeq(s, i, i)

StartsWith(s, c) == Len(s) >= 1 /\ Ch(s, 1) = c

Digits == "0123456789"

IsDigit(c) == \E i \in 1..10 : Ch(Digits, i) = c

DigitVal(c) == (CHOOSE i \in 1..10 : Ch(Digits, i) = c) - 1

\* indexOf: the first position >= i of character c in s, 0 when there is none
RECURSIVE IndexOf(_, _, _)
IndexOf(s, c, i) ==
    IF i > Len(s) THEN 0
    ELSE IF Ch(s, i) = c THEN i
    ELSE IndexOf(s, c, i + 1)

\* the run of decimal digits of s from position i: its value, its length
RECURSIVE ScanDigits(_, _, _, _)
ScanDigits(s, i, acc, n) ==
    IF i <= Len(s) /\ IsDigit(Ch(s, i))
    THEN ScanDigits(s, i + 1, acc * 10 + DigitVal(Ch(s, i)), n + 1)
    ELSE [v |-> acc, n |-> n, i |-> i]

RECURSIVE Pow10(_)
Pow10(n) == IF n = 0 THEN 1 ELSE 10 * Pow10(n - 1)

(***************************************************************************)
(* Numbers: IEEE doubles as exact fractions plus NaN and the infinities    *)
(***************************************************************************)
Abs(x) == IF x < 0 THEN -x ELSE x

RECURSIVE GCD(_, _)
GCD(a, b) == IF b = 0 THEN a ELSE GCD(b, a % b)

Fin(n, d) ==
    LET g == GCD(Abs(n), d)
    IN  [k |-> "fin", n |-> n \div g, d |-> d \div g]

NaN == [k |-> "nan", n |-> 0, d |-> 1]

PosInf == [k |-> "inf", n |-> 0, d |-> 1]

NegInf == [k |-> "-inf", n |-> 0, d |-> 1]

IsInteger(x) == x.k = "fin" /\ x.d = 1

\* x / y for finite x, y: division by zero gives NaN (0/0) or an infinity
NumDiv(x, y) ==
    IF x.k # "fin" \/ y.k # "fin" THEN NaN
    ELSE IF y.n = 0
         THEN IF x.n = 0 THEN NaN ELSE IF x.n > 0 THEN PosInf ELSE NegInf
    ELSE IF y.n > 0 THEN Fin(x.n * y.d, x.d * y.n)
    ELSE Fin(-(x.n * y.d), x.d * (-y.n))

\* Math.ceil: NaN and the infinities are returned as they are
MathCeil(x) ==
    IF x.k # "fin" THEN x
    ELSE Fin(-((-x.n) \div x.d), 1)

(***************************************************************************)
(* Values                                                                  *)
(***************************************************************************)
Undef == [t |-> "undef"]

Null == [t |-> "null"]

Bool(b) == [t |-> "bool", b |-> b]

Str(s) == [t |-> "str", s |-> s]

Num(x) == [t |-> "num", n |-> x]

IntV(n) == Num(Fin(n, 1))

Arr(s) == [t |-> "arr", a |-> s]

Obj(s) == [t |-> "obj", es |-> s]

EmptyObj == Obj(<<>>)

\* typeof value === 'object'
TypeofObject(x) == x.t \in {"obj", "arr", "null"}

\* the truthiness `||` and `?:` test
Truthy(x) ==
    CASE x.t \in {"undef", "null"} -> FALSE
      [] x.t = "bool" -> x.b
      [] x.t = "str" -> x.s # ""
      [] x.t = "num" -> ~(x.n.k = "nan" \/ (x.n.k = "fin" /\ x.n.n = 0))
      [] OTHER -> TRUE

(***************************************************************************)
(* Number(value): the ToNumber conversion.  Of the numeric string grammar  *)
(* the decimal literals are modelled (sign, digits, one fraction point);   *)
(* the empty string is 0 and any other text is NaN.                        *)
(***************************************************************************)
StringToNumber(s) ==
    IF s = "" THEN Fin(0, 1)
    ELSE
      LET signed == Ch(s, 1) = "-" \/ Ch(s, 1) = "+"
          sign == IF Ch(s, 1) = "-" THEN -1 ELSE 1
          ip == ScanDigits(s, IF signed THEN 2 ELSE 1, 0, 0)
          dot == ip.i <= Len(s) /\ Ch(s, ip.i) = "."
          fp == IF dot THEN ScanDigits(s, ip.i + 1, 0, 0)
                ELSE [v |-> 0, n |-> 0, i |-> ip.i]
      IN  IF fp.i = Len(s) + 1 /\ ip.n + fp.n > 0
          THEN Fin(sign * (ip.v * Pow10(fp.n) + fp.v), Pow10(fp.n))
          ELSE NaN

\* the digits of the fraction r/d, r < d, d a divisor of a power of ten
RECURSIVE FracDigits(_, _)
FracDigits(r, d) ==
    IF r = 0 THEN ""
    ELSE ToString((r * 10) \div d) \o FracDigits((r * 10) % d, d)

NumToString(x) ==
    CASE x.k = "nan" -> "NaN"
      [] x.k = "inf" -> "Infinity"
      [] x.k = "-inf" -> "-Infinity"
      [] OTHER ->
           IF x.d = 1 THEN ToString(x.n)
           ELSE (IF x.n < 0 THEN "-" ELSE "") \o ToString(Abs(x.n) \div x.d)
                \o "." \o FracDigits(Abs(x.n) % x.d, x.d)

\* String(value), as Array.prototype.join and ToNumber of an object use it
RECURSIVE ToStr(_)
RECURSIVE JoinComma(_)
ToStr(x) ==
    CASE x.t = "str" -> x.s
      [] x.t = "num" -> NumToString(x.n)
      [] x.t = "bool" -> IF x.b THEN "true" ELSE "false"
      [] x.t = "undef" -> "undefined"
      [] x.t = "null" -> "null"
      [] x.t = "arr" -> JoinComma(x.a)
      [] OTHER -> "[object Object]"

JoinComma(s) ==
    IF s = <<>> THEN ""
    ELSE LET h == IF Head(s).t \in {"undef", "null"} THEN "" ELSE ToStr(Head(s))
         IN  IF Len(s) = 1 THEN h ELSE h \o "," \o JoinComma(Tail(s))

ToNumber(x) ==
    CASE x.t = "undef" -> NaN
      [] x.t = "null" -> Fin(0, 1)
      [] x.t = "bool" -> IF x.b THEN Fin(1, 1) ELSE Fin(0, 1)
      [] x.t = "num" -> x.n
      [] OTHER -> StringToNumber(ToStr(x))

IsNaN(x) == x.k = "nan"

(***************************************************************************)
(* Objects: own enumerable properties in JavaScript's order (array-index   *)
(* keys ascending first, then the other keys in insertion order)           *)
(***************************************************************************)
\* a canonical array index: "0", or digits without a leading zero
IsIndexKey(k) ==
    /\ Len(k) >= 1
    /\ \A i \in 1..Len(k) : IsDigit(Ch(k, i))
    /\ (Len(k) > 1 => Ch(k, 1) # "0")

IndexVal(k) == ScanDigits(k, 1, 0, 0).v

HasKey(es, k) == \E i \in 1..Len(es) : es[i].k = k

KeysOf(es) == [i \in 1..Len(es) |-> es[i].k]

KeySet(es) == {es[i].k : i \in 1..Len(es)}

\* es[k]; undefined when k is no own property
Get(es, k) ==
    IF HasKey(es, k) THEN es[CHOOSE i \in 1..Len(es) : es[i].k = k].v ELSE Undef

\* where a new own property k goes among the entries es
InsertAt(es, k) ==
    IF IsIndexKey(k)
    THEN Cardinality({i \in 1..Len(es) :
                        IsIndexKey(es[i].k) /\ IndexVal(es[i].k) < IndexVal(k)}) + 1
    ELSE Len(es) + 1

\* CreateDataProperty: define own property k (no setter is consulted)
DefineProp(es, k, v) ==
    IF HasKey(es, k)
    THEN [i \in 1..Len(es) |-> IF es[i].k = k THEN [k |-> k, v |-> v] ELSE es[i]]
    ELSE LET p == InsertAt(es, k)
         IN  SubSeq(es, 1, p - 1) \o <<[k |-> k, v |-> v]>> \o SubSeq(es, p, Len(es))

\* acc[k] = v on a plain object: "__proto__" reaches the setter of
\* Object.prototype, which creates no own property
SetProp(es, k, v) == IF k = "__proto__" THEN es ELSE DefineProp(es, k, v)

\* Object.entries(x) of any non-nullish value
Entries(x) ==
    CASE x.t = "obj" -> x.es
      [] x.t = "arr" -> [i \in 1..Len(x.a) |-> [k |-> ToString(i - 1), v |-> x.a[i]]]
      [] x.t = "str" -> [i \in 1..Len(x.s) |-> [k |-> ToString(i - 1), v |-> Str(Ch(x.s, i))]]
      [] OTHER -> <<>>

(***************************************************************************)
(* JSON.parse(text): a recursive-descent reading of the JSON grammar       *)
(* (objects, arrays, strings without escapes, decimal numbers without      *)
(* exponent, true, false, null, blanks between tokens).  A result is       *)
(* [ok, v, i]: whether the text parsed, the value, the next position.      *)
(* A duplicate member name keeps its first position and its last value.    *)
(***************************************************************************)
Quote == "\""

SyntaxError == [ok |-> FALSE, v |-> Undef, i |-> 0]

Parsed(v, i) == [ok |-> TRUE, v |-> v, i |-> i]

RECURSIVE SkipWs(_, _)
SkipWs(s, i) == IF i <= Len(s) /\ Ch(s, i) = " " THEN SkipWs(s, i + 1) ELSE i

JsonString(s, i) ==
    LET close == IndexOf(s, Quote, i + 1)
    IN  IF i <= Len(s) /\ Ch(s, i) = Quote /\ close > 0
        THEN Parsed(Str(SubSeq(s, i + 1, close - 1)), close + 1)
        ELSE SyntaxError

JsonNumber(s, i) ==
    LET neg == Ch(s, i) = "-"
        ip == ScanDigits(s, IF neg THEN i + 1 ELSE i, 0, 0)
        dot == ip.i <= Len(s) /\ Ch(s, ip.i) = "."
        fp == IF dot THEN ScanDigits(s, ip.i + 1, 0, 0)
              ELSE [v |-> 0, n |-> 0, i |-> ip.i]
        leadingZero == ip.n > 1 /\ Ch(s, ip.i - ip.n) = "0"
    IN  IF ip.n = 0 \/ leadingZero \/ (dot /\ fp.n = 0)
        THEN SyntaxError
        ELSE Parsed(Num(Fin((IF neg THEN -1 ELSE 1) * (ip.v * Pow10(fp.n) + fp.v),
                            Pow10(fp.n))), fp.i)

JsonLiteral(s, i, word, v) ==
    IF i + Len(word) - 1 <= Len(s) /\ SubSeq(s, i, i + Len(word) - 1) = word
    THEN Parsed(v, i + Len(word))
    ELSE SyntaxError

RECURSIVE JsonValue(_, _)
RECURSIVE JsonMembers(_, _, _, _)
RECURSIVE JsonElements(_, _, _, _)
JsonValue(s, i0) ==
    LET i == SkipWs(s, i0)
        c == IF i <= Len(s) THEN Ch(s, i) ELSE ""
    IN  CASE c = "{" -> JsonMembers(s, i + 1, <<>>, TRUE)
          [] c = "[" -> JsonElements(s, i + 1, <<>>, TRUE)
          [] c = Quote -> JsonString(s, i)
          [] c = "t" -> JsonLiteral(s, i, "true", Bool(TRUE))
          [] c = "f" -> JsonLiteral(s, i, "false", Bool(FALSE))
          [] c = "n" -> JsonLiteral(s, i, "null", Null)
          [] c = "-" \/ (c # "" /\ IsDigit(c)) -> JsonNumber(s, i)
          [] OTHER -> SyntaxError

JsonMembers(s, i0, acc, first) ==
    LET i == SkipWs(s, i0)
    IN  IF first /\ i <= Len(s) /\ Ch(s, i) = "}" THEN Parsed(Obj(acc), i + 1)
        ELSE
          LET key == JsonString(s, i)
              colon == IF key.ok THEN SkipWs(s, key.i) ELSE 0
              val == IF key.ok /\ colon <= Len(s) /\ Ch(s, colon) = ":"
                     THEN JsonValue(s, colon + 1) ELSE SyntaxError
              j == IF val.ok THEN SkipWs(s, val.i) ELSE 0
              c == IF val.ok /\ j <= Len(s) THEN Ch(s, j) ELSE ""
          IN  CASE c = "," -> JsonMembers(s, j + 1, DefineProp(acc, key.v.s, val.v), FALSE)
                [] c = "}" -> Parsed(Obj(DefineProp(acc, key.v.s, val.v)), j + 1)
                [] OTHER -> SyntaxError

JsonElements(s, i0, acc, first) ==
    LET i == SkipWs(s, i0)
    IN  IF first /\ i <= Len(s) /\ Ch(s, i) = "]" THEN Parsed(Arr(acc), i + 1)
        ELSE
          LET val == JsonValue(s, i)
              j == IF val.ok THEN SkipWs(s, val.i) ELSE 0
              c == IF val.ok /\ j <= Len(s) THEN Ch(s, j) ELSE ""
          IN  CASE c = "," -> JsonElements(s, j + 1, Append(acc, val.v), FALSE)
                [] c = "]" -> Parsed(Arr(Append(acc, val.v)), j + 1)
                [] OTHER -> SyntaxError

\* JSON.parse: [ok |-> FALSE] stands for the SyntaxError it throws
JsonParse(s) ==
    LET r == JsonValue(s, 1)
    IN  IF r.ok /\ SkipWs(s, r.i) = Len(s) + 1 THEN r ELSE SyntaxError

(***************************************************************************)
(* qs.parse(text, {ignoreQueryPrefix: true, depth: 5}), qs 6.13: the text  *)
(* is split at "&", each part at its first "=" (after "]=" when there is   *)
(* one); equal keys are combined into an array; each key's bracket         *)
(* segments build a nested value; the values are merged key by key and     *)
(* compacted.  Every leaf is a string.  Percent-escapes and "+" are not    *)
(* part of the modelled inputs.  A hole of a sparse array is an Undef      *)
(* element until Compact drops it.                                         *)
(***************************************************************************)
QsDepth == 5

QsArrayLimit == 20

\* has.call(Object.prototype, name)
ObjectPrototypeKeys ==
    {"__proto__", "constructor", "hasOwnProperty", "isPrototypeOf",
     "propertyIsEnumerable", "toLocaleString", "toString", "valueOf",
     "__defineGetter__", "__defineSetter__", "__lookupGetter__", "__lookupSetter__"}

Slice(s, a, b) == IF a > b THEN "" ELSE SubSeq(s, a, b)

RECURSIVE SplitFrom(_, _, _)
SplitFrom(s, sep, i) ==
    LET j == IndexOf(s, sep, i)
    IN  IF j = 0 THEN <<Slice(s, i, Len(s))>>
        ELSE <<Slice(s, i, j - 1)>> \o SplitFrom(s, sep, j + 1)

\* part.indexOf("]="), 0 when absent
RECURSIVE IndexOfBracketEquals(_, _)
IndexOfBracketEquals(s, i) ==
    IF i + 1 > Len(s) THEN 0
    ELSE IF Ch(s, i) = "]" /\ Ch(s, i + 1) = "=" THEN i
    ELSE IndexOfBracketEquals(s, i + 1)

\* one part of the query string as [k |-> key text, v |-> value]
QsPart(part) ==
    LET be == IndexOfBracketEquals(part, 1)
        pos == IF be = 0 THEN IndexOf(part, "=", 1) ELSE be + 1
    IN  IF pos = 0 THEN [k |-> part, v |-> Str("")]
        ELSE [k |-> Slice(part, 1, pos - 1), v |-> Str(Slice(part, pos + 1, Len(part)))]

\* utils.combine(a, b) = [].concat(a, b)
Concat(a, b) ==
    Arr((IF a.t = "arr" THEN a.a ELSE <<a>>) \o (IF b.t = "arr" THEN b.a ELSE <<b>>))

\* parseValues: the flat key -> value table (a null-prototype object)
RECURSIVE QsValues(_, _)
QsValues(parts, acc) ==
    IF parts = <<>> THEN acc
    ELSE LET kv == QsPart(Head(parts))
             nxt == IF HasKey(acc, kv.k)
                    THEN DefineProp(acc, kv.k, Concat(Get(acc, kv.k), kv.v))
                    ELSE DefineProp(acc, kv.k, kv.v)
         IN  QsValues(Tail(parts), nxt)

\* the next match of /\[[^[\]]*]/ in key from position p: [a, b], a = 0 if none
RECURSIVE NextSegment(_, _)
NextSegment(key, p) ==
    LET a == IndexOf(key, "[", p)
        brs == {j \in (a + 1)..Len(key) : Ch(key, j) = "[" \/ Ch(key, j) = "]"}
        b == IF a = 0 \/ brs = {} THEN 0
             ELSE CHOOSE j \in brs : \A j2 \in brs : j <= j2
    IN  IF a = 0 \/ b = 0 THEN [a |-> 0, b |-> 0]
        ELSE IF Ch(key, b) = "]" THEN [a |-> a, b |-> b]
        ELSE NextSegment(key, b)

RECURSIVE Segments(_, _)
Segments(key, p) ==
    LET sg == NextSegment(key, p)
    IN  IF sg.a = 0 THEN <<>> ELSE <<sg>> \o Segments(key, sg.b + 1)

Holes(n) == [i \in 1..n |-> Undef]

\* parseObject: the nested value of a chain of key segments around a leaf
RECURSIVE QsParseObject(_, _)
QsParseObject(chain, val) ==
    IF chain = <<>> THEN val
    ELSE
      LET root == Head(chain)
          leaf == QsParseObject(Tail(chain), val)
          bracketed == Len(root) >= 2 /\ Ch(root, 1) = "[" /\ Ch(root, Len(root)) = "]"
          cleanRoot == IF bracketed THEN Slice(root, 2, Len(root) - 1) ELSE root
      IN  IF root = "[]" THEN Concat(Arr(<<>>), leaf)
          ELSE IF bracketed /\ IsIndexKey(cleanRoot) /\ IndexVal(cleanRoot) <= QsArrayLimit
               THEN Arr(Holes(IndexVal(cleanRoot)) \o <<leaf>>)
          ELSE IF cleanRoot # "__proto__" THEN Obj(<<[k |-> cleanRoot, v |-> leaf]>>)
          ELSE EmptyObj

\* parseKeys: [ok |-> FALSE] when the key is dropped (empty, or a property
\* name of Object.prototype)
QsParseKeys(key, val) ==
    LET segs == Segments(key, 1)
        parent == IF segs = <<>> THEN key ELSE Slice(key, 1, segs[1].a - 1)
        n == IF Len(segs) < QsDepth THEN Len(segs) ELSE QsDepth
        inner(i) == Slice(key, segs[i].a + 1, segs[i].b - 1)
        rest == IF Len(segs) > QsDepth
                THEN <<"[" \o Slice(key, segs[QsDepth + 1].a, Len(key)) \o "]">>
                ELSE <<>>
        chain == (IF parent = "" THEN <<>> ELSE <<parent>>)
                 \o [i \in 1..n |-> Slice(key, segs[i].a, segs[i].b)] \o rest
    IN  IF key = "" \/ parent \in ObjectPrototypeKeys
           \/ \E i \in 1..n : inner(i) \in ObjectPrototypeKeys
        THEN [ok |-> FALSE, v |-> Undef]
        ELSE [ok |-> TRUE, v |-> QsParseObject(chain, val)]

IsObjectLike(x) == x.t \in {"obj", "arr"}

\* arrayToObject: the defined elements of an array under their indices
ArrayToObject(a) ==
    SelectSeq([i \in 1..Len(a) |-> [k |-> ToString(i - 1), v |-> a[i]]],
              LAMBDA e : e.v # Undef)

\* target[i] = item on an array (i counted from 0), holes filled in between
ArraySet(a, i, item) ==
    IF i < Len(a) THEN [a EXCEPT ![i + 1] = item]
    ELSE a \o Holes(i - Len(a)) \o <<item>>

\* utils.merge(target, source)
RECURSIVE QsMerge(_, _)
RECURSIVE QsMergeArrays(_, _, _)
RECURSIVE QsMergeKeys(_, _)
QsMerge(target, source) ==
    IF ~Truthy(source) THEN target
    ELSE IF ~IsObjectLike(source)
    THEN IF target.t = "arr" THEN Arr(Append(target.a, source))
         ELSE IF target.t = "obj"
              THEN IF ToStr(source) \in ObjectPrototypeKeys THEN target
                   ELSE Obj(SetProp(target.es, ToStr(source), Bool(TRUE)))
         ELSE Arr(<<target, source>>)
    ELSE IF ~Truthy(target) \/ ~IsObjectLike(target)
    THEN Concat(Arr(<<target>>), source)
    ELSE IF target.t = "arr" /\ source.t = "arr"
    THEN Arr(QsMergeArrays(target.a, source.a, 1))
    ELSE Obj(QsMergeKeys(IF target.t = "arr" THEN ArrayToObject(target.a) ELSE target.es,
                         Entries(source)))

QsMergeArrays(t, s, i) ==
    IF i > Len(s) THEN t
    ELSE IF s[i] = Undef THEN QsMergeArrays(t, s, i + 1)
    ELSE IF i <= Len(t) /\ t[i] # Undef
         THEN IF IsObjectLike(t[i]) /\ IsObjectLike(s[i])
              THEN QsMergeArrays([t EXCEPT ![i] = QsMerge(t[i], s[i])], s, i + 1)
              ELSE QsMergeArrays(Append(t, s[i]), s, i + 1)
    ELSE QsMergeArrays(ArraySet(t, i - 1, s[i]), s, i + 1)

QsMergeKeys(acc, src) ==
    IF src = <<>> THEN acc
    ELSE LET e == Head(src)
         IN  IF e.v = Undef THEN QsMergeKeys(acc, Tail(src))
             ELSE IF HasKey(acc, e.k)
                  THEN QsMergeKeys(SetProp(acc, e.k, QsMerge(Get(acc, e.k), e.v)), Tail(src))
             ELSE QsMergeKeys(SetProp(acc, e.k, e.v), Tail(src))

\* utils.compact: the holes of every array are dropped
RECURSIVE Compact(_)
RECURSIVE CompactAll(_)
Compact(x) ==
    CASE x.t = "arr" -> Arr(CompactAll(SelectSeq(x.a, LAMBDA e : e # Undef)))
      [] x.t = "obj" -> Obj([i \in 1..Len(x.es) |-> [k |-> x.es[i].k, v |-> Compact(x.es[i].v)]])
      [] OTHER -> x

CompactAll(a) == [i \in 1..Len(a) |-> Compact(a[i])]

RECURSIVE QsFold(_, _)
QsFold(table, obj) ==
    IF table = <<>> THEN obj
    ELSE LET nw == QsParseKeys(Head(table).k, Head(table).v)
         IN  QsFold(Tail(table), IF nw.ok THEN QsMerge(obj, nw.v) ELSE obj)

\* qs.parse: the decoded mapping, an object whose leaves are strings
QsParse(text) ==
    LET clean == IF StartsWith(text, "?") THEN Slice(text, 2, Len(text)) ELSE text
    IN  IF clean = "" THEN EmptyObj
        ELSE Compact(QsFold(QsValues(SplitFrom(clean, "&", 1), <<>>), EmptyObj))

(***************************************************************************)
(* query3.constant (imported at query3.ts 8-12, 175-179; the file itself   *)
(* is not among the sources).  The README gives the two defaults; the      *)
(* default allow-list is the one the specification enumerates.             *)
(***************************************************************************)
DefaultLimit == 20

DefaultOffset == 0

DefaultAllowedOperators ==
    Arr(<<Str("$gte"), Str("$lte"), Str("$eq"), Str("$gt"), Str("$lt"),
          Str("$in"), Str("$ne"), Str("$nin"), Str("$regex"), Str("$exists")>>)

ReservedKeys == {"limit", "offset", "sort", "count", "justOne"}

(***************************************************************************)
(* Errors: what a throw carries                                            *)
(***************************************************************************)
Thrown(name, message) == [name |-> name, message |-> message]

NoError == Thrown("", "")

OperatorError(operator) == Thrown("Error", "Operator '" \o operator \o "' is not allowed.")

NullKeysError == Thrown("TypeError", "Cannot convert undefined or null to object")

DestructureError == Thrown("TypeError", "Cannot destructure 'query' as it is null.")

JsonSyntaxError == Thrown("SyntaxError", "Unexpected token in JSON")

(***************************************************************************)
(* validateOperators(query, allowedOperators), both versions: the entries  *)
(* of query in order; for each value that passes the typeof test, its keys *)
(* in order; the first key outside the list throws.  The json version      *)
(* (35-48) has no null guard, so Object.keys(null) throws a TypeError; the *)
(* flat version (202-215) skips null.  The result is the error thrown,     *)
(* NoError when the call returns.                                          *)
(***************************************************************************)
\* allowedOperators.includes(operator)
Includes(list, operator) == \E i \in 1..Len(list.a) : list.a[i] = Str(operator)

\* Object.keys(value).forEach: the first key that throws, "" when none does
FirstKeyNotIn(keys, allowedOperators) ==
    LET bad == {j \in 1..Len(keys) : ~Includes(allowedOperators, keys[j])}
    IN  IF bad = {} THEN 0 ELSE CHOOSE j \in bad : \A j2 \in bad : j <= j2

RECURSIVE ValidateFrom(_, _, _, _)
ValidateFrom(version, query, i, allowedOperators) ==
    IF i > Len(query) THEN NoError
    ELSE
      LET value == query[i].v
          inspected == IF version = "json" THEN TypeofObject(value)
                       ELSE TypeofObject(value) /\ value # Null
          keys == KeysOf(Entries(value))
          bad == FirstKeyNotIn(keys, allowedOperators)
      IN  IF ~inspected THEN ValidateFrom(version, query, i + 1, allowedOperators)
          ELSE IF value = Null THEN NullKeysError
          ELSE IF bad # 0 THEN OperatorError(keys[bad])
          ELSE ValidateFrom(version, query, i + 1, allowedOperators)

ValidateOperators(version, query, allowedOperators) ==
    ValidateFrom(version, query, 1, allowedOperators)

\* options.allowedOperators || DefaultAllowedOperators
AllowedOperators(options) ==
    IF Truthy(options.allowedOperators) THEN options.allowedOperators
    ELSE DefaultAllowedOperators

(***************************************************************************)
(* parseQueryString, json version (57-93).  The result records how far the *)
(* call got: stage "decode" (JSON.parse threw), "destructure" (the decoded *)
(* value is null), "validate" (validateOperators threw) or "done"; decoded *)
(* is the decoded input, filters what validateOperators was given, spec    *)
(* the ParseQueryResult returned.                                          *)
(***************************************************************************)
NoSpec == [filter |-> EmptyObj, limit |-> NaN, offset |-> NaN, sort |-> Undef,
           count |-> Undef, justOne |-> Undef, cacheTimeMs |-> 0]

ParseOutcome(stage, err, decoded, filters, spec) ==
    [ok |-> stage = "done", stage |-> stage, err |-> err, decoded |-> decoded,
     filters |-> filters, spec |-> spec]

\* a || b
OrElse(a, b) == IF Truthy(a) THEN a ELSE b

\* const { key = dflt } = query
Destructured(query, key, dflt) ==
    LET v == Get(Entries(query), key) IN IF v = Undef THEN dflt ELSE v

\* const { limit, offset, sort, justOne, count, ...filters } = query
RestOf(query) == SelectSeq(Entries(query), LAMBDA e : e.k \notin ReservedKeys)

\* typeof value === 'object' ? { ...value } : value
ShallowCopy(value) == IF TypeofObject(value) THEN Obj(Entries(value)) ELSE value

\* Object.entries(filters).reduce((acc, [key, value]) => { acc[key] = ...; }, {})
RECURSIVE ReduceFilters(_, _, _)
ReduceFilters(filters, n, acc) ==
    IF n > Len(filters) THEN acc
    ELSE ReduceFilters(filters, n + 1,
                       SetProp(acc, filters[n].k, ShallowCopy(filters[n].v)))

ParsedFilters(filters) == ReduceFilters(filters, 1, <<>>)

\* JsonResult with the default of limit taken for offset as well
JsonResultOneDefault(query, filters) ==
    ParseOutcome("done", NoError, query, filters,
        [filter |-> Obj(ParsedFilters(filters)),
         limit |-> ToNumber(Destructured(query, "limit", IntV(DefaultLimit))),
         offset |-> ToNumber(Destructured(query, "offset", IntV(DefaultLimit))),
         sort |-> OrElse(Get(Entries(query), "sort"), EmptyObj),
         count |-> Destructured(query, "count", Bool(FALSE)),
         justOne |-> Destructured(query, "justOne", Bool(FALSE)),
         cacheTimeMs |-> 0])

\* 88-92: the ParseQueryResult returned
JsonResult(query, filters) ==
    ParseOutcome("done", NoError, query, filters,
        [filter |-> Obj(ParsedFilters(filters)),
         limit |-> ToNumber(Destructured(query, "limit", IntV(DefaultLimit))),
         offset |-> ToNumber(Destructured(query, "offset", IntV(DefaultOffset))),
         sort |-> OrElse(Get(Entries(query), "sort"), EmptyObj),
         count |-> Destructured(query, "count", Bool(FALSE)),
         justOne |-> Destructured(query, "justOne", Bool(FALSE)),
         cacheTimeMs |-> 0])

\* 74-77: validateOperators on the remaining keys; thrown is what it threw
JsonValidated(query, filters, thrown) ==
    IF thrown # NoError THEN ParseOutcome("validate", thrown, query, filters, NoSpec)
    ELSE JsonResult(query, filters)

JsonFiltered(query, filters, options) ==
    JsonValidated(query, filters,
                  ValidateOperators("json", filters, AllowedOperators(options)))

\* 63-71: the destructuring of the decoded input
JsonDestructured(parsed, options) ==
    IF ~parsed.ok
    THEN ParseOutcome("decode", JsonSyntaxError, Undef, <<>>, NoSpec)
    ELSE IF parsed.v = Null
    THEN ParseOutcome("destructure", DestructureError, parsed.v, <<>>, NoSpec)
    ELSE JsonFiltered(parsed.v, RestOf(parsed.v), options)

ParseQueryStringJson(queryString, options) ==
    JsonDestructured(JsonParse(queryString), options)

(***************************************************************************)
(* parseQueryString, flat version (224-278): stage "coerce" when the       *)
(* JSON.parse of a "{..." leaf threw while the filters were being built.   *)
(***************************************************************************)
\* isNaN(Number(value)) ? value : Number(value)
Coerce(value) == IF IsNaN(ToNumber(value)) THEN value ELSE Num(ToNumber(value))

\* 252-258: Object.entries(value).reduce over the entries es from the n-th on
RECURSIVE CoerceEntries(_, _, _)
CoerceEntries(es, n, acc) ==
    IF n > Len(es) THEN acc
    ELSE CoerceEntries(es, n + 1, SetProp(acc, es[n].k, Coerce(es[n].v)))

\* one filter key's converted value, [ok, v]; ok is FALSE when JSON.parse threw
ConvertFilter(value) ==
    IF value.t = "str" /\ StartsWith(value.s, "{")
    THEN [ok |-> JsonParse(value.s).ok, v |-> JsonParse(value.s).v]
    ELSE IF TypeofObject(value) /\ value # Null
    THEN [ok |-> TRUE, v |-> Obj(CoerceEntries(Entries(value), 1, <<>>))]
    ELSE [ok |-> TRUE, v |-> Coerce(value)]

\* the filter/reduce of 240-263 over the entries es from the n-th on:
\* [ok, es]; ok is FALSE when a JSON.parse threw
RECURSIVE ReduceFlat(_, _, _)
RECURSIVE ReduceFlatStep(_, _, _, _)
ReduceFlat(es, n, acc) ==
    IF n > Len(es) THEN [ok |-> TRUE, es |-> acc]
    ELSE IF es[n].k \in ReservedKeys THEN ReduceFlat(es, n + 1, acc)
    ELSE ReduceFlatStep(es, n, acc, ConvertFilter(es[n].v))

ReduceFlatStep(es, n, acc, converted) ==
    IF converted.ok THEN ReduceFlat(es, n + 1, SetProp(acc, es[n].k, converted.v))
    ELSE [ok |-> FALSE, es |-> acc]

FlatFilters(parsedQuery) == ReduceFlat(Entries(parsedQuery), 1, <<>>)

\* 265-277: validateOperators on the filters, then the ParseQueryResult
FlatValidated(parsedQuery, filters, thrown) ==
    IF thrown # NoError THEN ParseOutcome("validate", thrown, parsedQuery, filters, NoSpec)
    ELSE ParseOutcome("done", NoError, parsedQuery, filters,
             [filter |-> Obj(filters),
              limit |-> ToNumber(OrElse(Get(parsedQuery.es, "limit"), IntV(DefaultLimit))),
              offset |-> ToNumber(OrElse(Get(parsedQuery.es, "offset"), IntV(DefaultOffset))),
              sort |-> OrElse(Get(parsedQuery.es, "sort"), EmptyObj),
              count |-> Bool(Get(parsedQuery.es, "count") = Str("true")),
              justOne |-> Bool(Get(parsedQuery.es, "justOne") = Str("true")),
              cacheTimeMs |-> 0])

\* 240-263: the filters built from the decoded input
FlatFiltered(parsedQuery, filters, options) ==
    IF ~filters.ok
    THEN ParseOutcome("coerce", JsonSyntaxError, parsedQuery, <<>>, NoSpec)
    ELSE FlatValidated(parsedQuery, filters.es,
             ValidateOperators("flat", filters.es, AllowedOperators(options)))

FlatDecoded(parsedQuery, options) ==
    FlatFiltered(parsedQuery, FlatFilters(parsedQuery), options)

ParseQueryStringFlat(queryString, options) ==
    FlatDecoded(QsParse(queryString), options)

ParseQueryString(version, queryString, options) ==
    IF version = "json" THEN ParseQueryStringJson(queryString, options)
    ELSE ParseQueryStringFlat(queryString, options)

(***************************************************************************)
(* omitFields(data, fields) (148-154, 333-339): per record a shallow copy  *)
(* from which each listed key is deleted                                   *)
(***************************************************************************)
\* DeleteFields deleting only the first field of the list
DeleteFirstField(es, fields) ==
    SelectSeq(es, LAMBDA e : ~(Len(fields.a) >= 1 /\ ToStr(fields.a[1]) = e.k))

\* DeleteFields giving up after the first property it deleted
DeleteOneField(es, fields) ==
    LET listed == {i \in 1..Len(es) :
                      \E j \in 1..Len(fields.a) : ToStr(fields.a[j]) = es[i].k}
        first == CHOOSE i \in listed : \A i2 \in listed : i <= i2
    IN  IF listed = {} THEN es
        ELSE SubSeq(es, 1, first - 1) \o SubSeq(es, first + 1, Len(es))

\* fields.forEach((field) => delete result[field]): every listed key goes
DeleteFields(es, fields) ==
    SelectSeq(es, LAMBDA e : ~\E j \in 1..Len(fields.a) : ToStr(fields.a[j]) = e.k)

\* The records live in a heap, a sequence of objects addressed by position;
\* an array of records is a sequence of addresses.  The callback of data.map
\* gives back the heap it leaves and the address it returns.
Returned(heap, ref) == [heap |-> heap, ref |-> ref]

\* OmitItem without the copy (const result = item): the deletes reach the
\* caller's record
OmitItemAlias(heap, item, fields) ==
    Returned([heap EXCEPT ![item] = Obj(DeleteFields(Entries(heap[item]), fields))],
             item)

\* (item) => { const result = { ...item }; fields.forEach(delete ...); return result }
OmitItem(heap, item, fields) ==
    Returned(Append(heap, Obj(DeleteFields(Entries(ShallowCopy(heap[item])), fields))),
             Len(heap) + 1)

\* data.map(callback): the callback runs on data[n], data[n + 1], ... in turn
RECURSIVE OmitMap(_, _, _, _, _)
OmitMap(heap, data, fields, n, refs) ==
    IF n > Len(data) THEN Returned(heap, refs)
    ELSE LET r == OmitItem(heap, data[n], fields)
         IN  OmitMap(r.heap, data, fields, n + 1, Append(refs, r.ref))

\* the objects an array of addresses refers to
Deref(heap, refs) == [i \in 1..Len(refs) |-> heap[refs[i]]]

\* the caller's records at the addresses 1..Len(data)
Addresses(data) == [i \in 1..Len(data) |-> i]

\* what a call of omitFields leaves behind: the array it returned, and the
\* caller's array as it is afterwards
OmitFieldsLeft(r, data) ==
    [returned |-> Deref(r.heap, r.ref), data |-> Deref(r.heap, Addresses(data))]

OmitFieldsCall(data, fields) ==
    OmitFieldsLeft(OmitMap(data, Addresses(data), fields, 1, <<>>), data)

OmitFields(data, fields) == OmitFieldsCall(data, fields).returned

(***************************************************************************)
(* query (103-139, 288-324): the steps between its awaits                  *)
(***************************************************************************)
\* { ...filter, ...options.queryMongoose }
RECURSIVE Spread(_, _, _)
Spread(acc, es, n) ==
    IF n > Len(es) THEN acc
    ELSE Spread(DefineProp(acc, es[n].k, es[n].v), es, n + 1)

\* CombinedFilter with the spreads in the other order: the parsed filter wins
CombinedFilterParsedWins(filter, queryMongoose) ==
    Obj(Spread(Entries(queryMongoose), Entries(filter), 1))

CombinedFilter(filter, queryMongoose) ==
    Obj(Spread(Entries(filter), Entries(queryMongoose), 1))

\* Math.ceil(totalRows / limit)
TotalPages(totalRows, limit) == MathCeil(NumDiv(Fin(totalRows, 1), limit))

\* FindChain with offset and limit handed to each other's method
FindChainSwapped(filter, offset, limit, sort, populate) ==
    <<[op |-> "find", arg |-> filter],
      [op |-> "skip", arg |-> Num(limit)],
      [op |-> "limit", arg |-> Num(offset)],
      [op |-> "sort", arg |-> sort],
      [op |-> "populate", arg |-> populate],
      [op |-> "lean", arg |-> Undef],
      [op |-> "exec", arg |-> Undef]>>

\* the chain find(f).skip(o).limit(l).sort(s).populate(p).lean().exec()
FindChain(filter, offset, limit, sort, populate) ==
    <<[op |-> "find", arg |-> filter],
      [op |-> "skip", arg |-> Num(offset)],
      [op |-> "limit", arg |-> Num(limit)],
      [op |-> "sort", arg |-> sort],
      [op |-> "populate", arg |-> populate],
      [op |-> "lean", arg |-> Undef],
      [op |-> "exec", arg |-> Undef]>>

\* options.omitFields ? this.omitFields(records, options.omitFields) : records
ResultRecords(records, options) ==
    IF Truthy(options.omitFields) THEN OmitFields(records, options.omitFields)
    ELSE records

(***************************************************************************)
(* The collaborator (the Mongoose model the constructor binds, 24-26): the *)
(* documents matching the filter are coll; countDocuments resolves with    *)
(* their number, exec with the window skip/limit cut from them.  A skip    *)
(* that is no whole number >= 0 or a limit that is no whole number is      *)
(* rejected; limit 0 is "no limit" and a negative limit its absolute value.*)
(***************************************************************************)
Doc(i) ==
    Obj(<<[k |-> "name", v |-> Str("user" \o ToString(i))],
          [k |-> "password", v |-> Str("secret" \o ToString(i))],
          [k |-> "age", v |-> IntV(20 + i)]>>)

CountDocuments(docs) == Len(docs)

ExecAccepts(offset, limit) ==
    IsInteger(offset) /\ offset.n >= 0 /\ IsInteger(limit)

Min(a, b) == IF a < b THEN a ELSE b

ExecWindow(docs, offset, limit) ==
    LET from == offset.n + 1
        upto == IF limit.n = 0 THEN Len(docs)
                ELSE Min(Len(docs), offset.n + Abs(limit.n))
    IN  IF from > upto THEN <<>> ELSE SubSeq(docs, from, upto)

CollaboratorError == Thrown("MongoError", "collaborator failure")

\* the failures an awaited call of the collaborator may reject with
CollaboratorErrors ==
    {CollaboratorError, Thrown("MongoNetworkError", "connection lost")}

\* an awaited call of the collaborator settled: it resolved with a value or
\* rejected with an error
Resolved(op, value) == [op |-> op, how |-> "resolved", with |-> value]

Rejected(op, err) == [op |-> op, how |-> "rejected", with |-> err]

(***************************************************************************)
(* Bounds and the inputs drawn within them                                 *)
(***************************************************************************)
\* filter members in one raw input
MaxFields == 2

\* documents matching the filter when the call starts
MaxRows == 3

\* records handed to omitFields directly
MaxRecords == 2

RECURSIVE Join(_, _)
Join(parts, sep) ==
    IF parts = <<>> THEN ""
    ELSE IF Len(parts) = 1 THEN Head(parts)
    ELSE Head(parts) \o sep \o Join(Tail(parts), sep)

SeqsUpTo(pool, n) == UNION {[1..k -> pool] : k \in 0..n}

\* a JSON member "key":value
Member(key, value) == Quote \o key \o Quote \o ":" \o value

Quoted(text) == Quote \o text \o Quote

JsonLimitTexts ==
    {"5", Quoted("5"), "0", "null", Quoted(""), "-3", "2.5", Quoted("abc"), "1", "10"}

JsonOffsetTexts == {"0", "1", Quoted("2"), "null", "-1", "0.5", Quoted("x")}

JsonSortTexts == {"{\"age\":-1}", "{\"name\":\"asc\",\"age\":1}", "null"}

JsonPagination ==
    {<<>>}
    \cup {<<Member("limit", l)>> : l \in JsonLimitTexts}
    \cup {<<Member("offset", o)>> : o \in JsonOffsetTexts}
    \cup {<<Member("sort", t)>> : t \in JsonSortTexts}
    \cup {<<Member("limit", "5"), Member("offset", "0"), Member("sort", "{\"age\":-1}")>>,
          <<Member("limit", "1"), Member("offset", "1"), Member("sort", "{\"age\":-1}")>>,
          <<Member("offset", "2"), Member("limit", "2")>>,
          <<Member("count", "true"), Member("justOne", "true")>>}

JsonFields ==
    {Member("age", "{\"$gte\":18}"),
     Member("age", "{\"$bad\":1,\"$worse\":2}"),
     Member("score", "{\"$evil\":1}"),
     Member("name", Quoted("John")),
     Member("deletedAt", "null"),
     Member("tags", "[\"a\"]"),
     Member("address", "{\"city\":\"X\"}"),
     Member("__proto__", "{\"$gte\":1}"),
     Member("$where", Quoted("1")),
     Member("rank", "{\"$gte\":{\"$bad\":1}}")}

\* raw inputs that are no JSON object
JsonOddInputs ==
    {"", "{", "null", "[1,2]", Quoted("ab"), "5", "limit=5", "{\"limit\":5,}"}

FlatLimitTexts == {"5", "0", "", "-3", "2.5", "abc", "1", "10"}

FlatOffsetTexts == {"0", "1", "2", "", "-1", "0.5", "x"}

FlatPagination ==
    {<<>>}
    \cup {<<"limit=" \o l>> : l \in FlatLimitTexts}
    \cup {<<"offset=" \o o>> : o \in FlatOffsetTexts}
    \cup {<<"sort[age]=-1">>, <<"sort[name]=asc", "sort[age]=1">>, <<"sort=">>,
          <<"limit=5", "offset=0", "sort[age]=-1">>,
          <<"limit=1", "offset=1", "sort[age]=1">>,
          <<"offset=2", "limit=2">>,
          <<"limit=5", "limit=6">>,
          <<"count=true", "justOne=true">>}

FlatFields ==
    {"age[$gte]=18",
     "age[$bad]=1",
     "age[$worse]=2",
     "score[$evil]=1",
     "name=John",
     "zip=02139",
     "address[city]=X",
     "age={\"$gte\":18}",
     "note={oops",
     "$where=1",
     "rank[$gte][$bad]=1"}

FlatOddInputs == {"", "?limit=3&age[$gte]=18", "{\"limit\":5}", "&", "limit"}

RawText(version, members) ==
    IF version = "json" THEN "{" \o Join(members, ",") \o "}" ELSE Join(members, "&")

\* every pagination variant alone and before one filter member; every
\* sequence of up to MaxFields filter members; the odd inputs
RawInputsOf(version, pagination, fields, one, odd) ==
    {RawText(version, pg \o f) : pg \in pagination, f \in {<<>>, <<one>>}}
    \cup {RawText(version, f) : f \in SeqsUpTo(fields, MaxFields)}
    \cup odd

JsonRawInputs ==
    RawInputsOf("json", JsonPagination, JsonFields, Member("age", "{\"$gte\":18}"),
                JsonOddInputs)

FlatRawInputs ==
    RawInputsOf("flat", FlatPagination, FlatFields, "age[$gte]=18", FlatOddInputs)

RawInputs(version) == IF version = "json" THEN JsonRawInputs ELSE FlatRawInputs

NoOptions ==
    [populate |-> Undef, omitFields |-> Undef, queryMongoose |-> Undef,
     allowedOperators |-> Undef]

OptionChoices ==
    {NoOptions,
     [NoOptions EXCEPT !.allowedOperators = Arr(<<Str("$gte"), Str("$lte")>>)],
     [NoOptions EXCEPT !.queryMongoose =
         Obj(<<[k |-> "isActive", v |-> Bool(TRUE)], [k |-> "age", v |-> IntV(30)]>>)],
     [NoOptions EXCEPT !.omitFields = Arr(<<Str("password"), Str("missing")>>),
                       !.populate = Arr(<<Obj(<<[k |-> "path", v |-> Str("role")],
                                               [k |-> "select", v |-> Str("name")]>>)>>)],
     [NoOptions EXCEPT !.omitFields = Arr(<<>>)]}

Collections == {[i \in 1..n |-> Doc(i)] : n \in 0..MaxRows}

\* records for omitFields: flat ones, one with a nested object, an empty one
RecordPool ==
    {Obj(<<[k |-> "name", v |-> Str("A")], [k |-> "password", v |-> Str("x")],
           [k |-> "age", v |-> IntV(1)]>>),
     Obj(<<[k |-> "password", v |-> Str("y")],
           [k |-> "profile", v |-> Obj(<<[k |-> "password", v |-> Str("z")]>>)]>>),
     Obj(<<[k |-> "name", v |-> Str("B")]>>),
     EmptyObj}

DataChoices == SeqsUpTo(RecordPool, MaxRecords)

FieldLists ==
    {Arr(<<>>), Arr(<<Str("password")>>), Arr(<<Str("missing")>>),
     Arr(<<Str("password"), Str("name")>>), Arr(<<Str("age"), Str("age")>>)}

\* aggregation pipelines, and what the collaborator's aggregate may resolve with
Pipelines ==
    {Arr(<<>>),
     Arr(<<Obj(<<[k |-> "$match", v |-> Obj(<<[k |-> "age", v |-> IntV(30)]>>)]>>)>>),
     Arr(<<Obj(<<[k |-> "$match",
                  v |-> Obj(<<[k |-> "age",
                               v |-> Obj(<<[k |-> "$bad", v |-> IntV(1)]>>)]>>)]>>),
           Obj(<<[k |-> "$group",
                  v |-> Obj(<<[k |-> "_id", v |-> Str("$role")]>>)]>>)>>)}

AggregateOutcomes == {<<>>, <<Doc(1)>>, <<Doc(1), Doc(2)>>}

(***************************************************************************)
(* State                                                                   *)
(***************************************************************************)
VARIABLES
    strategy,        \* which version of the class is deployed: "json", "flat"
    coll,            \* the collaborator's documents matching the filter
    wrote,           \* another client wrote between the count and the find
    pc,              \* "idle", "counting", "finding", "done", "failed", "omitted",
                     \* "omittedAgain", "aggregating", "aggregated"
    input,           \* the call made: [op, queryString, options], [op, data, fields]
                     \* or [op, pipeline]
    parse,           \* the outcome of parseQueryString
    combinedFilter,  \* query: combinedFilter
    totalRows,       \* query: totalRows
    totalPages,      \* query: totalPages
    records,         \* query: what exec resolved with
    result,          \* what the call returned
    error,           \* what the call threw (NoError when it has not)
    calls,           \* the collaborator's methods invoked so far, in order
    omitData,        \* the caller's array after omitFields returned
    settled          \* how the awaited collaborator calls settled, in order

vars == <<strategy, coll, wrote, pc, input, parse, combinedFilter, totalRows,
          totalPages, records, result, error, calls, omitData, settled>>

NoInput == [op |-> "none"]

NoParse == ParseOutcome("none", NoError, Undef, <<>>, NoSpec)

NoResult == [records |-> <<>>, pagination |-> [totalRows |-> 0, totalPages |-> NaN]]

Init ==
    /\ strategy \in {"json", "flat"}
    /\ coll \in Collections
    /\ wrote = FALSE
    /\ pc = "idle"
    /\ input = NoInput
    /\ parse = NoParse
    /\ combinedFilter = EmptyObj
    /\ totalRows = 0
    /\ totalPages = NaN
    /\ records = <<>>
    /\ result = NoResult
    /\ error = NoError
    /\ calls = <<>>
    /\ omitData = <<>>
    /\ settled = <<>>

(***************************************************************************)
(* query, up to its first await (107-116): parseQueryString, the merge of  *)
(* the filters and the call of countDocuments; a throw of parseQueryString *)
(* rejects the promise before anything else runs.                          *)
(***************************************************************************)
\* QueryParsed with the count issued before the outcome of the parse is looked at
QueryParsedCountFirst(queryString, options, p) ==
    /\ input' = [op |-> "query", queryString |-> queryString, options |-> options]
    /\ parse' = p
    /\ combinedFilter' = CombinedFilter(p.spec.filter, options.queryMongoose)
    /\ calls' = Append(calls, [op |-> "countDocuments", arg |-> combinedFilter'])
    /\ pc' = IF p.ok THEN "counting" ELSE "failed"
    /\ error' = IF p.ok THEN error ELSE p.err
    /\ UNCHANGED <<strategy, coll, wrote, totalRows, totalPages, records, result,
                   omitData, settled>>

QueryParsed(queryString, options, p) ==
    /\ input' = [op |-> "query", queryString |-> queryString, options |-> options]
    /\ parse' = p
    /\ IF p.ok
       THEN /\ combinedFilter' = CombinedFilter(p.spec.filter, options.queryMongoose)
            /\ calls' = Append(calls, [op |-> "countDocuments", arg |-> combinedFilter'])
            /\ pc' = "counting"
            /\ error' = error
       ELSE /\ pc' = "failed"
            /\ error' = p.err
            /\ UNCHANGED <<combinedFilter, calls>>
    /\ UNCHANGED <<strategy, coll, wrote, totalRows, totalPages, records, result,
                   omitData, settled>>

QueryStart(queryString, options) ==
    QueryParsed(queryString, options, ParseQueryString(strategy, queryString, options))

\* countDocuments resolves (116-127): totalPages, then the find chain
CountResolve ==
    /\ pc = "counting"
    /\ totalRows' = CountDocuments(coll)
    /\ settled' = Append(settled, Resolved("countDocuments", totalRows'))
    /\ totalPages' = TotalPages(totalRows', parse.spec.limit)
    /\ calls' = calls \o FindChain(combinedFilter, parse.spec.offset, parse.spec.limit,
                                   parse.spec.sort, input.options.populate)
    /\ pc' = "finding"
    /\ UNCHANGED <<strategy, coll, wrote, input, parse, combinedFilter, records, result,
                   error, omitData>>

\* CountReject with the rejection caught: the count is taken to be 0 and the
\* find chain is issued all the same
CountRejectSwallowed ==
    /\ pc = "counting"
    /\ \E err \in CollaboratorErrors :
          settled' = Append(settled, Rejected("countDocuments", err))
    /\ totalRows' = 0
    /\ totalPages' = TotalPages(totalRows', parse.spec.limit)
    /\ calls' = calls \o FindChain(combinedFilter, parse.spec.offset, parse.spec.limit,
                                   parse.spec.sort, input.options.populate)
    /\ pc' = "finding"
    /\ UNCHANGED <<strategy, coll, wrote, input, parse, combinedFilter, records, result,
                   error, omitData>>

\* countDocuments rejects: the await throws and query rejects with it
CountReject ==
    /\ pc = "counting"
    /\ pc' = "failed"
    /\ \E err \in CollaboratorErrors :
          /\ error' = err
          /\ settled' = Append(settled, Rejected("countDocuments", err))
    /\ UNCHANGED <<strategy, coll, wrote, input, parse, combinedFilter, totalRows,
                   totalPages, records, result, calls, omitData>>

\* another client inserts a matching document while the find is pending
OtherClientInsert ==
    /\ pc = "finding"
    /\ ~wrote
    /\ coll' = Append(coll, Doc(Len(coll) + 1))
    /\ wrote' = TRUE
    /\ UNCHANGED <<strategy, pc, input, parse, combinedFilter, totalRows, totalPages,
                   records, result, error, calls, omitData, settled>>

\* another client deletes a matching document while the find is pending
OtherClientDelete ==
    /\ pc = "finding"
    /\ ~wrote
    /\ coll # <<>>
    /\ coll' = Tail(coll)
    /\ wrote' = TRUE
    /\ UNCHANGED <<strategy, pc, input, parse, combinedFilter, totalRows, totalPages,
                   records, result, error, calls, omitData, settled>>

\* exec resolves (127-138): the envelope is returned
FindResolve ==
    /\ pc = "finding"
    /\ ExecAccepts(parse.spec.offset, parse.spec.limit)
    /\ records' = ExecWindow(coll, parse.spec.offset, parse.spec.limit)
    /\ settled' = Append(settled, Resolved("exec", records'))
    /\ result' = [records |-> ResultRecords(records', input.options),
                  pagination |-> [totalRows |-> totalRows, totalPages |-> totalPages]]
    /\ pc' = "done"
    /\ UNCHANGED <<strategy, coll, wrote, input, parse, combinedFilter, totalRows,
                   totalPages, error, calls, omitData>>

\* exec rejects: the await throws and query rejects with it
FindReject ==
    /\ pc = "finding"
    /\ pc' = "failed"
    /\ \E err \in CollaboratorErrors :
          /\ error' = err
          /\ settled' = Append(settled, Rejected("exec", err))
    /\ UNCHANGED <<strategy, coll, wrote, input, parse, combinedFilter, totalRows,
                   totalPages, records, result, calls, omitData>>

\* omitFields called on its own (the test at __tests__/query3.spec.ts 48-60)
OmitFieldsDirect(data, fields) ==
    LET r == OmitFieldsCall(data, fields)
    IN  /\ input' = [op |-> "omitFields", data |-> data, fields |-> fields]
        /\ result' = r.returned
        /\ omitData' = r.data
        /\ pc' = "omitted"
        /\ UNCHANGED <<strategy, coll, wrote, parse, combinedFilter, totalRows,
                       totalPages, records, error, calls, settled>>

\* the caller invokes query on an idle instance
CallQuery ==
    /\ pc = "idle"
    /\ \E q \in RawInputs(strategy), o \in OptionChoices : QueryStart(q, o)

\* the caller invokes omitFields on an idle instance
CallOmitFields ==
    /\ pc = "idle"
    /\ \E d \in DataChoices, f \in FieldLists : OmitFieldsDirect(d, f)

\* the caller hands what omitFields returned to omitFields again, with the
\* same fields
CallOmitFieldsAgain ==
    /\ pc = "omitted"
    /\ LET r == OmitFieldsCall(result, input.fields)
       IN  /\ input' = [op |-> "omitFields", data |-> result, fields |-> input.fields]
           /\ result' = r.returned
           /\ omitData' = r.data
    /\ pc' = "omittedAgain"
    /\ UNCHANGED <<strategy, coll, wrote, parse, combinedFilter, totalRows,
                   totalPages, records, error, calls, settled>>

\* Aggregate with the filter of each $match stage put through
\* validateOperators first
AggregateValidated(pipeline) ==
    /\ input' = [op |-> "aggregate", pipeline |-> pipeline]
    /\ IF \A i \in 1..Len(pipeline.a) :
              ValidateOperators(strategy,
                                Entries(Get(Entries(pipeline.a[i]), "$match")),
                                DefaultAllowedOperators) = NoError
       THEN /\ calls' = calls \o <<[op |-> "aggregate", arg |-> pipeline],
                                   [op |-> "exec", arg |-> Undef]>>
            /\ pc' = "aggregating"
            /\ error' = error
       ELSE /\ pc' = "failed"
            /\ error' = OperatorError("$bad")
            /\ calls' = calls
    /\ UNCHANGED <<strategy, coll, wrote, parse, combinedFilter, totalRows, totalPages,
                   records, result, omitData, settled>>

\* aggregate (163-165, 347-349): this.model.aggregate(pipeline).exec()
Aggregate(pipeline) ==
    /\ input' = [op |-> "aggregate", pipeline |-> pipeline]
    /\ calls' = calls \o <<[op |-> "aggregate", arg |-> pipeline],
                            [op |-> "exec", arg |-> Undef]>>
    /\ pc' = "aggregating"
    /\ UNCHANGED <<strategy, coll, wrote, parse, combinedFilter, totalRows, totalPages,
                   records, result, error, omitData, settled>>

\* the caller invokes aggregate on an idle instance
CallAggregate ==
    /\ pc = "idle"
    /\ \E pipeline \in Pipelines : Aggregate(pipeline)

\* the aggregation resolves: its result is returned as it is
AggregateResolve ==
    /\ pc = "aggregating"
    /\ \E outcome \in AggregateOutcomes :
          /\ result' = outcome
          /\ settled' = Append(settled, Resolved("exec", outcome))
    /\ pc' = "aggregated"
    /\ UNCHANGED <<strategy, coll, wrote, input, parse, combinedFilter, totalRows,
                   totalPages, records, error, calls, omitData>>

\* the aggregation rejects: aggregate rejects with the same error
AggregateReject ==
    /\ pc = "aggregating"
    /\ pc' = "failed"
    /\ \E err \in CollaboratorErrors :
          /\ error' = err
          /\ settled' = Append(settled, Rejected("exec", err))
    /\ UNCHANGED <<strategy, coll, wrote, input, parse, combinedFilter, totalRows,
                   totalPages, records, result, calls, omitData>>

Next ==
    \/ CallQuery
    \/ CountResolve
    \/ CountReject
    \/ OtherClientInsert
    \/ OtherClientDelete
    \/ FindResolve
    \/ FindReject
    \/ CallOmitFields
    \/ CallOmitFieldsAgain
    \/ CallAggregate
    \/ AggregateResolve
    \/ AggregateReject

Spec == Init /\ [][Next]_vars

(***************************************************************************)
(* Properties.  A query execution is a behaviour from CallQuery on; parse  *)
(* holds what parseQueryString did in it: parse.filters is the mapping     *)
(* validateOperators was handed, parse.err what was thrown.                *)
(***************************************************************************)
QueryCalled == input.op = "query"

\* validateOperators ran in this execution
Validated == QueryCalled /\ parse.stage \in {"validate", "done"}

\* the allow-list in force
InForce == AllowedOperators(input.options)

\* a nested mapping: a value with keys of its own
IsMapping(value) == value.t \in {"obj", "arr"}

\* the fields, by position, whose nested mapping has a key outside the list
DisallowedFields(filters, allowed) ==
    {i \in 1..Len(filters) :
        /\ IsMapping(filters[i].v)
        /\ \E k \in KeySet(Entries(filters[i].v)) : ~Includes(allowed, k)}

\* the first key of the mapping, in key order, outside the list
FirstDisallowedKey(value, allowed) ==
    KeysOf(Entries(value))[
        CHOOSE j \in 1..Len(Entries(value)) :
            /\ ~Includes(allowed, Entries(value)[j].k)
            /\ \A j2 \in 1..(j - 1) : Includes(allowed, Entries(value)[j2].k)]

FirstDisallowedField(filters, allowed) ==
    CHOOSE i \in DisallowedFields(filters, allowed) :
        \A i2 \in DisallowedFields(filters, allowed) : i <= i2

\* C1: whenever a first-level nested mapping of the filter has a key outside
\* the allow-list in force, validation fails with the error that names the
\* first such key in traversal order.
C1_FirstDisallowedKeyNamed ==
    (Validated /\ DisallowedFields(parse.filters, InForce) # {}) =>
        parse.err = OperatorError(FirstDisallowedKey(
            parse.filters[FirstDisallowedField(parse.filters, InForce)].v, InForce))

\* every key beginning with "$" one level deep is in the list
OnlyAllowedOperators(filters, allowed) ==
    \A i \in 1..Len(filters) :
        \A k \in KeySet(Entries(filters[i].v)) :
            StartsWith(k, "$") => Includes(allowed, k)

\* C2: a filter whose operator keys (keys beginning with "$") one level deep
\* are all in the allow-list passes validation without error, whatever its
\* field values: literals, null, arrays, mappings with plain keys.
C2_AllowedOperatorsPass ==
    (Validated /\ OnlyAllowedOperators(parse.filters, InForce)) =>
        (parse.stage = "done" /\ parse.err = NoError)

\* C3: in an execution of query whose parsing or validation failed, no
\* collaborator operation has been invoked at any point.
C3_NoCollaboratorCallOnFailure ==
    (QueryCalled /\ ~parse.ok) => calls = <<>>

\* a query rejected by the validator for "$evil"
C3_Witness ==
    /\ QueryCalled
    /\ pc = "failed"
    /\ parse.stage = "validate"
    /\ parse.err = OperatorError("$evil")
    /\ calls = <<>>

\* parseQueryString returned a ParseQueryResult in this execution
Accepted == QueryCalled /\ parse.ok

\* the top-level keys of the decoded input
DecodedKeys == KeySet(Entries(parse.decoded))

\* C4: for an accepted input no reserved key is a key of the filter, and
\* every other top-level key of the decoded input is a key of the filter.
C4_FilterKeys ==
    Accepted =>
        /\ \A k \in ReservedKeys : ~HasKey(parse.spec.filter.es, k)
        /\ \A k \in DecodedKeys \ ReservedKeys : HasKey(parse.spec.filter.es, k)

\* the find chain has been issued: calls is countDocuments, find, skip,
\* limit, sort, populate, lean, exec
ChainIssued == QueryCalled /\ Len(calls) = 8

\* C5: an accepted input without "limit" gives limit 20, one without
\* "offset" gives offset 0, and when both are omitted the chain is
\* find(...).skip(0).limit(20).
C5_Defaults ==
    Accepted =>
        /\ "limit" \notin DecodedKeys => parse.spec.limit = Fin(20, 1)
        /\ "offset" \notin DecodedKeys => parse.spec.offset = Fin(0, 1)
        /\ (ChainIssued /\ "limit" \notin DecodedKeys /\ "offset" \notin DecodedKeys) =>
              /\ calls[2].op = "find"
              /\ calls[3] = [op |-> "skip", arg |-> IntV(0)]
              /\ calls[4] = [op |-> "limit", arg |-> IntV(20)]

\* a filter-only input whose chain has been issued with the defaults
C5_Witness ==
    /\ ChainIssued
    /\ Accepted
    /\ DecodedKeys = {"age"}
    /\ calls[3].arg = IntV(0)
    /\ calls[4].arg = IntV(20)

\* the decoded input's value under key is falsy (or the key is absent)
Falsy(key) == ~Truthy(Get(Entries(parse.decoded), key))

\* C6: in every returned ParseQueryResult limit is a positive integer and
\* offset a non-negative integer, whatever the input gives under these keys;
\* a falsy limit yields 20 and a falsy offset yields 0.
C6_PaginationIntegers ==
    Accepted =>
        /\ IsInteger(parse.spec.limit) /\ parse.spec.limit.n > 0
        /\ IsInteger(parse.spec.offset) /\ parse.spec.offset.n >= 0
        /\ Falsy("limit") => parse.spec.limit = Fin(20, 1)
        /\ Falsy("offset") => parse.spec.offset = Fin(0, 1)

\* C7: a successful query returns the count as totalRows and
\* ceil(totalRows / limit) as totalPages; with totalRows = 0, totalPages is
\* exactly 0 whatever limit the input requests.
C7_Pagination ==
    (QueryCalled /\ pc = "done") =>
        /\ result.pagination.totalRows = totalRows
        /\ result.pagination.totalPages =
               MathCeil(NumDiv(Fin(totalRows, 1), parse.spec.limit))
        /\ totalRows = 0 => result.pagination.totalPages = Fin(0, 1)

\* C8: the filter handed to the collaborator has exactly the keys of the
\* parsed filter F and of the extra filter E (options.queryMongoose); a key
\* of E has E's value, a key of F alone has F's value.
C8_MergedFilter ==
    (QueryCalled /\ Len(calls) >= 1) =>
        /\ calls[1].op = "countDocuments"
        /\ KeySet(calls[1].arg.es) =
               KeySet(parse.spec.filter.es)
               \cup KeySet(Entries(input.options.queryMongoose))
        /\ \A k \in KeySet(Entries(input.options.queryMongoose)) :
               Get(calls[1].arg.es, k) = Get(Entries(input.options.queryMongoose), k)
        /\ \A k \in KeySet(parse.spec.filter.es)
                    \ KeySet(Entries(input.options.queryMongoose)) :
               Get(calls[1].arg.es, k) = Get(parse.spec.filter.es, k)
        /\ Len(calls) >= 2 => calls[2] = [op |-> "find", arg |-> calls[1].arg]

\* the parsed filter and the extra filter both have "age", with other values
C8_Witness ==
    /\ ChainIssued
    /\ HasKey(parse.spec.filter.es, "age")
    /\ HasKey(parse.spec.filter.es, "name")
    /\ Get(Entries(input.options.queryMongoose), "age") = IntV(30)
    /\ Get(parse.spec.filter.es, "age") # IntV(30)
    /\ Get(calls[2].arg.es, "age") = IntV(30)
    /\ Get(calls[2].arg.es, "isActive") = Bool(TRUE)

\* the decoded input's sort
InputSort == Get(Entries(parse.decoded), "sort")

FieldNames(fields) == {ToStr(fields.a[j]) : j \in 1..Len(fields.a)}

\* C10: omitFields returns as many records, in the same order; the i-th has
\* exactly the keys of the i-th input record outside the field set, each
\* with its input value; names no record has are ignored; an empty field set
\* returns records equal to the input.
C10_OmitFields ==
    pc = "omitted" =>
        /\ Len(result) = Len(input.data)
        /\ \A i \in 1..Len(input.data) :
              /\ KeySet(result[i].es) =
                     KeySet(input.data[i].es) \ FieldNames(input.fields)
              /\ \A k \in KeySet(result[i].es) :
                     Get(result[i].es, k) = Get(input.data[i].es, k)
        /\ input.fields.a = <<>> => result = input.data

\* two records, a field list of a key the first record has, a key only the
\* first has, and a nested object whose own "password" stays
C10_Witness ==
    /\ pc = "omitted"
    /\ Len(input.data) = 2
    /\ FieldNames(input.fields) = {"password", "name"}
    /\ HasKey(input.data[1].es, "name")
    /\ ~HasKey(input.data[2].es, "name")
    /\ HasKey(input.data[2].es, "profile")
    /\ Get(result[2].es, "profile") = Get(input.data[2].es, "profile")
    /\ KeySet(result[1].es) = {"age"}

\* C11: omitFields never mutates its input: after a call the caller's array
\* has the same records, each with the same keys and values as before the
\* call, the omitted fields included.
C11_InputUnchanged ==
    pc \in {"omitted", "omittedAgain"} =>
        /\ Len(omitData) = Len(input.data)
        /\ \A i \in 1..Len(input.data) :
              /\ KeySet(omitData[i].es) = KeySet(input.data[i].es)
              /\ \A k \in KeySet(input.data[i].es) :
                     Get(omitData[i].es, k) = Get(input.data[i].es, k)
        /\ omitData = input.data

\* a call that omitted "password" from both of two records: the returned
\* records are without it, the caller's records still have it
C11_Witness ==
    /\ pc = "omitted"
    /\ Len(input.data) = 2
    /\ "password" \in FieldNames(input.fields)
    /\ \A i \in 1..2 :
          /\ HasKey(input.data[i].es, "password")
          /\ ~HasKey(result[i].es, "password")
          /\ HasKey(omitData[i].es, "password")

\* C12: omitFields is idempotent: omitFields(omitFields(r, f), f) is
\* structurally equal to omitFields(r, f).  At "omittedAgain" input.data is
\* what the first call returned and result what the second returned.
C12_Idempotent ==
    pc = "omittedAgain" =>
        /\ Len(result) = Len(input.data)
        /\ \A i \in 1..Len(input.data) : result[i] = input.data[i]

\* the second call on two records the first call took "password" and "name"
\* from, the first of them left with "age" alone
C12_Witness ==
    /\ pc = "omittedAgain"
    /\ FieldNames(input.fields) = {"password", "name"}
    /\ Len(input.data) = 2
    /\ KeySet(input.data[1].es) = {"age"}
    /\ KeySet(input.data[2].es) = {"profile"}
    /\ Len(result) = 2

\* the raw input of this execution could not be decoded into a mapping: the
\* decoder threw (parse.decoded is Undef then), a "{..." leaf of the flat
\* version did not parse, or the decoded value is no mapping
Undecodable ==
    /\ QueryCalled
    /\ (parse.decoded.t # "obj" \/ parse.stage \in {"decode", "coerce"})

\* C13: for every raw input that cannot be decoded into a mapping (invalid
\* syntax, or a decoded JSON array, string, number or null), parsing fails
\* with an error and query returns no result envelope.
C13_UndecodableRejected ==
    Undecodable =>
        /\ ~parse.ok
        /\ parse.err # NoError
        /\ pc = "failed"
        /\ error = parse.err
        /\ result = NoResult

\* the operator keys (keys beginning with "$") one level into the filter of
\* the pipeline's first stage that are outside the default allow-list
DisallowedInPipeline(pipeline) ==
    IF pipeline.a = <<>> THEN {}
    ELSE LET match == Entries(pipeline.a[1].es[1].v)
         IN  {k \in UNION {KeySet(Entries(match[j].v)) : j \in 1..Len(match)} :
                 StartsWith(k, "$") /\ ~Includes(DefaultAllowedOperators, k)}

\* C14: aggregate(pipeline) is a pure passthrough: for every pipeline, one
\* with operators outside the allow-list included, the collaborator's
\* pipeline execution is invoked exactly once with that same pipeline, no
\* operator validation runs, neither count nor find is invoked, and what the
\* collaborator resolves with is returned unchanged (what it rejects with is
\* the failure of the call).
C14_AggregatePassthrough ==
    input.op = "aggregate" =>
        /\ calls = <<[op |-> "aggregate", arg |-> input.pipeline],
                     [op |-> "exec", arg |-> Undef]>>
        /\ parse = NoParse
        /\ pc \in {"aggregating", "aggregated", "failed"}
        /\ pc = "aggregating" => (settled = <<>> /\ error = NoError)
        /\ pc = "aggregated" =>
               (settled = <<Resolved("exec", result)>> /\ error = NoError)
        /\ pc = "failed" => (settled = <<Rejected("exec", error)>> /\ result = NoResult)

\* an aggregation over a pipeline whose $match uses "$bad", resolved with two
\* documents that came back as the result
C14_Witness ==
    /\ input.op = "aggregate"
    /\ pc = "aggregated"
    /\ DisallowedInPipeline(input.pipeline) = {"$bad"}
    /\ Len(calls) = 2
    /\ result = <<Doc(1), Doc(2)>>

\* an operator key (a key beginning with "$") outside the list
DisallowedOperator(k, allowed) == StartsWith(k, "$") /\ ~Includes(allowed, k)

\* the top-level keys of the filter that are disallowed operators
TopLevelOperators(filters, allowed) ==
    {filters[i].k : i \in {i2 \in 1..Len(filters) :
                              DisallowedOperator(filters[i2].k, allowed)}}

\* the top-level keys of the filter with a disallowed operator two levels
\* below them
DeepOperators(filters, allowed) ==
    {filters[i].k : i \in {i2 \in 1..Len(filters) :
        \E j \in 1..Len(Entries(filters[i2].v)) :
            \E k \in KeySet(Entries(Entries(filters[i2].v)[j].v)) :
                DisallowedOperator(k, allowed)}}

\* the places of the filter validation does not look at that hold a
\* disallowed operator
OutOfReach(filters, allowed) ==
    TopLevelOperators(filters, allowed) \cup DeepOperators(filters, allowed)

\* C15: validation looks exactly one level deep: a top-level key is never
\* checked (even one beginning with "$" whose value is a scalar) and an
\* operator key two or more levels below a top-level field is never checked,
\* so a filter whose only disallowed operators sit at those positions (no key
\* one level deep is outside the allow-list) passes validation and reaches
\* the collaborator with them.
C15_DepthOneOnly ==
    (/\ Validated
     /\ DisallowedFields(parse.filters, InForce) = {}
     /\ OutOfReach(parse.filters, InForce) # {}) =>
        /\ parse.ok
        /\ parse.err = NoError
        /\ Len(calls) >= 1
        /\ calls[1].op = "countDocuments"
        /\ OutOfReach(parse.filters, InForce)
               \subseteq OutOfReach(calls[1].arg.es, InForce)

\* the positions of the collaborator's log at which method op was invoked
Invocations(op) == {i \in 1..Len(calls) : calls[i].op = op}

\* the awaited calls that rejected, by position
Rejections == {i \in 1..Len(settled) : settled[i].how = "rejected"}

\* C16: in an execution of query that passed parsing and validation, count
\* is invoked exactly once and first; find is invoked at most once, with the
\* filter count was given, and only after count resolved; when count or find
\* rejects, query fails with that same failure, nothing more is invoked and no
\* result envelope is returned.
C16_CountThenFind ==
    Accepted =>
        /\ Invocations("countDocuments") = {1}
        /\ Cardinality(Invocations("find")) <= 1
        /\ \A i \in Invocations("find") :
              /\ i = 2
              /\ calls[i].arg = calls[1].arg
              /\ Len(settled) >= 1
              /\ settled[1].op = "countDocuments"
              /\ settled[1].how = "resolved"
              /\ settled[1].with = totalRows
        /\ Len(settled) <= 2
        /\ \A i \in Rejections :
              /\ i = Len(settled)
              /\ pc = "failed"
              /\ error = settled[i].with
              /\ result = NoResult
              /\ Len(calls) = IF settled[i].op = "countDocuments" THEN 1 ELSE 8
        /\ pc = "failed" => Rejections # {}
        /\ pc = "done" => (Rejections = {} /\ Len(settled) = 2 /\ Len(calls) = 8)

\* count resolved, the find chain was issued with the same filter and its
\* exec rejected with a connection failure: query failed with that failure
C16_Witness ==
    /\ Accepted
    /\ pc = "failed"
    /\ Len(calls) = 8
    /\ calls[2] = [op |-> "find", arg |-> calls[1].arg]
    /\ Len(settled) = 2
    /\ settled[1] = Resolved("countDocuments", totalRows)
    /\ settled[2] = Rejected("exec", Thrown("MongoNetworkError", "connection lost"))
    /\ error = Thrown("MongoNetworkError", "connection lost")
    /\ result = NoResult

\* min(limit, max(0, totalRows - offset))
ExpectedWindow(limit, offset, rows) ==
    Min(limit, IF rows - offset > 0 THEN rows - offset ELSE 0)

\* C17: when no other client wrote between the count and the find of a query
\* call, the number of records returned is min(limit, max(0, totalRows -
\* offset)).  (With a write in between, totalRows and the records may come
\* from different states of the collection; that half is a reachable state,
\* RaceObserved.)
C17_WindowWithoutWrite ==
    (QueryCalled /\ pc = "done" /\ ~wrote) =>
        Len(result.records) =
            ExpectedWindow(parse.spec.limit.n, parse.spec.offset.n,
                           result.pagination.totalRows)

\* a query with offset 0 and a limit above the collection's size returned
\* more records than its totalRows, another client having inserted between
\* the count and the find
RaceObserved ==
    /\ QueryCalled
    /\ pc = "done"
    /\ wrote
    /\ parse.spec.offset = Fin(0, 1)
    /\ IsInteger(parse.spec.limit)
    /\ parse.spec.limit.n > Len(coll)
    /\ Len(result.records) > result.pagination.totalRows

=============================================================================
